---- MODULE Spec2Model ----
(***************************************************************************)
(* Model of pipelines/labeling.py: the Labeling flow (start -> end), the   *)
(* label generator _get_label, the SQLite adapter _label_sqlite_data and   *)
(* the SageMaker/S3 adapter _label_sagemaker_data.                         *)
(*                                                                         *)
(* A URI is kept as the list of its "/"-separated segments, the value of   *)
(* uri.split("/"): "s3://bucket/gt/" is <<"s3:", "", "bucket", "gt", "">>. *)
(* The empty string splits to <<"">>; a parameter that was not given       *)
(* (None) is the empty list, which no split produces.                      *)
(***************************************************************************)
EXTENDS Integers, Sequences, FiniteSets, TLC

\* ------------------------------------------------------------------ bounds

\* Resolution of the random draw: random.random() is r / Res for r in 0..Res-1,
\* ground_truth_quality is q / Res for q in 0..Res.
Res == 4

\* Largest number of rows in the table.
MaxRows == 2

\* Largest number of rows in the captured data.
MaxCaptured == 3

\* Clock readings are 0..MaxTime, in ticks; TicksPerSecond ticks make a second.
MaxTime == 3

TicksPerSecond == 2

\* ------------------------------------------------------------- basic values

Runs == {"r1", "r2"}

NULL == "NULL"

NoneUri == <<>>

\* The list random.choice draws from.
Species == <<"Adelie", "Chinstrap", "Gentoo">>

SpeciesSet == {Species[k] : k \in DOMAIN Species}

\* Predictions given to _get_label on its own: the three species and one
\* value outside the list.
Predictions == SpeciesSet \cup {"Emperor"}

\* Predictions found in the stored data.
StoredPredictions == {"Adelie", "Emperor"}

\* Labels already present in the table before a run.
StoredSpecies == {NULL, "Gentoo"}

Uuids == <<"u1", "u2", "u3", "u4">>

\* Event ids in the sort order of their strings.
Events == <<"e1", "e2">>

EventSet == {Events[k] : k \in DOMAIN Events}

SqliteUri == <<"sqlite:", "", "penguins.db">>

S3DataUri == <<"s3:", "", "bucket", "datastore", "">>

S3GroundTruthUri == <<"s3:", "", "bucket", "ground-truth", "">>

\* Datastore locations tried: the two supported ones, an unsupported scheme,
\* and two near misses of the supported prefixes.
DatastoreUris ==
    { SqliteUri, S3DataUri,
      <<"http:", "", "host", "data">>,
      <<"s3:", "bucket", "datastore">>,
      <<"sqlite:penguins.db">> }

GroundTruthUris == { NoneUri, <<"">>, S3GroundTruthUri }

QualityLevels == {0, Res - 1, Res}

\* ------------------------------------------------------------ pure helpers

\* str.startswith, for a prefix that ends in "/" (its last segment is empty).
StartsWith(uri, prefix) ==
    /\ Len(uri) >= Len(prefix)
    /\ \A k \in 1..(Len(prefix) - 1) : uri[k] = prefix[k]

\* Python truthiness of a string parameter: None and "" are falsy.
Falsy(uri) == uri = NoneUri \/ uri = <<"">>

InvalidDatastoreMessage ==
    "Invalid datastore location. Must be an S3 location in the format 's3://bucket/prefix' or a SQLite database file in the format 'sqlite://path/to/database.db'"

GroundTruthRequiredMessage == "The 'ground-truth-uri' parameter is required."

\* _get_label with its two draws made explicit: r is random.random() * Res,
\* c the index random.choice picks. KeepBranch is the test of line 93.
\* Mutant: the comparison of line 93 made with <=.
KeepBranchOrEqual(quality, r) == r <= quality

KeepBranch(quality, r) == r < quality

GetLabel(prediction, quality, r, c) ==
    IF KeepBranch(quality, r) THEN prediction ELSE Species[c]

\* The labels _get_label can return for a prediction.
PossibleLabels(prediction, quality) ==
    { GetLabel(prediction, quality, r, c) : r \in 0..(Res - 1), c \in DOMAIN Species }

\* SELECT * FROM data WHERE species IS NULL
SelectUnlabeled(table) == SelectSeq(table, LAMBDA row : row.species = NULL)

\* Mutant: the UPDATE without its WHERE clause.
ExecuteUpdateNoWhere(table, label, uuid) ==
    [k \in DOMAIN table |-> [table[k] EXCEPT !.species = label]]

\* UPDATE data SET species = label WHERE uuid = uuid
ExecuteUpdate(table, label, uuid) ==
    [k \in DOMAIN table |->
        IF table[k].uuid = uuid THEN [table[k] EXCEPT !.species = label]
                                ELSE table[k]]

RECURSIVE ApplyUpdates(_, _)
\* The table after the pending UPDATE statements of a transaction, in order.
ApplyUpdates(table, updates) ==
    IF updates = <<>> THEN table
    ELSE ApplyUpdates(ExecuteUpdate(table, updates[1].label, updates[1].uuid),
                      Tail(updates))

\* data.groupby("event_id"): the group keys, sorted.
GroupKeys(rows) ==
    SelectSeq(Events, LAMBDA e : \E k \in DOMAIN rows : rows[k].event_id = e)

\* Mutant: a group that holds the rows of every event.
GroupUnfiltered(rows, e) == rows

\* The rows of one group, in the order they have in the data.
Group(rows, e) == SelectSeq(rows, LAMBDA row : row.event_id = e)

\* The positions in the data of the rows of one group, ascending.
GroupIndices(rows, e) ==
    SelectSeq([k \in DOMAIN rows |-> k], LAMBDA k : rows[k].event_id = e)

\* The record built for one event (lines 167-180).
Record(event_id, predictions) ==
    [ groundTruthData |-> [data |-> predictions, encoding |-> "CSV"],
      eventMetadata |-> [eventId |-> event_id],
      eventVersion |-> "0" ]

\* A string is a list of tokens. json.dumps(record) is one token: it holds no
\* raw newline.
JsonDumps(record) == << [json |-> record] >>

Newline == [newline |-> TRUE]

RECURSIVE Join(_, _)
\* sep.join(strs)
Join(sep, strs) ==
    IF strs = <<>> THEN <<>>
    ELSE IF Len(strs) = 1 THEN strs[1]
    ELSE strs[1] \o <<sep>> \o Join(sep, Tail(strs))

\* f"{upload_time:%Y/%m/%d/%H/%M%S}": the clock reading cut to whole seconds.
FormatTime(t) == t \div TicksPerSecond

\* Mutant: a key that does not depend on the upload time.
ObjectKeyFixed(uri, t) ==
    [ bucket |-> uri[3], prefix |-> SubSeq(uri, 4, Len(uri)), stamp |-> 0 ]

\* Bucket and Key of the put_object call (lines 186-194).
Bucket(uri) == uri[3]

ObjectKey(uri, t) ==
    [ bucket |-> Bucket(uri),
      prefix |-> SubSeq(uri, 4, Len(uri)),
      stamp |-> FormatTime(t) ]

\* s3_client.put_object: creates the object, or replaces the one under the key.
PutObject(store, key, body) ==
    [k \in (DOMAIN store) \cup {key} |-> IF k = key THEN body ELSE store[k]]

\* The keys of the store under the ground-truth location.
GroundTruthKeys(store, uri) ==
    { k \in DOMAIN store :
        k.bucket = Bucket(uri) /\ k.prefix = SubSeq(uri, 4, Len(uri)) }

\* The event ids that already have ground truth under the location.
LabeledEvents(store, uri) ==
    { tok.json.eventMetadata.eventId :
        tok \in UNION { { store[k][j] : j \in { j \in DOMAIN store[k] :
                                                  store[k][j] # Newline } } :
                        k \in GroundTruthKeys(store, uri) } }

\* sagemaker.load_unlabeled_data: the captured rows whose event has no ground
\* truth yet, with their event ids.
LoadUnlabeledData(store, rows, uri) ==
    SelectSeq(rows, LAMBDA row : row.event_id \notin LabeledEvents(store, uri))

\* -------------------------------------------------------------------- state

VARIABLES
    datastore_uri,          \* Parameter datastore-uri
    ground_truth_uri,       \* Parameter ground-truth-uri
    ground_truth_quality,   \* Parameter ground-truth-quality, in 1/Res
    pc,                     \* where each run is
    err,                    \* the exception that ended a run, as <<type, message>>
    labeled_samples,        \* self.labeled_samples: {} until assigned, then {n}
    logged,                 \* what the end step logged: {} or {n}
    db,                     \* the committed content of table data
    conn,                   \* the run's sqlite3 connection: none, open, closed
    txn,                    \* the UPDATEs executed on the connection, not committed
    df,                     \* the rows read by the SQLite adapter
    idx,                    \* position of the for loop over df
    captured,               \* the rows captured under the datastore location
    s3,                     \* object storage: key -> body
    data,                   \* the rows returned by load_unlabeled_data
    records,                \* the list records of the S3 adapter
    upload_time,            \* the clock reading taken at line 185: {} or {t}
    calls,                  \* the I/O calls each run has made, in order
    label_calls,            \* the rows _get_label was called for, in order
    db0,                    \* the table before the runs
    s30,                    \* the object storage before the runs
    sample                  \* a call of _get_label on its own: argument, draws, result

vars ==
    << datastore_uri, ground_truth_uri, ground_truth_quality, pc, err,
       labeled_samples, logged, db, conn, txn, df, idx, captured, s3, data,
       records, upload_time, calls, label_calls, db0, s30, sample >>

config == << datastore_uri, ground_truth_uri, ground_truth_quality >>

Call(op, arg) == [op |-> op, arg |-> arg]

\* How many calls of one kind a run has made.
Count(r, op) == Cardinality({ k \in DOMAIN calls[r] : calls[r][k].op = op })

NoError == [type |-> "", message |-> ""]

\* The tables tried: up to MaxRows rows, uuid unique per row.
Tables ==
    UNION { { [k \in 1..n |-> [uuid |-> Uuids[k],
                               prediction |-> f[k].prediction,
                               species |-> f[k].species]] :
              f \in [1..n -> [prediction : StoredPredictions,
                              species : StoredSpecies]] } :
            n \in 0..MaxRows }

\* The captured data tried: up to MaxCaptured rows, each of some event.
Captures ==
    UNION { [1..n -> [event_id : EventSet, prediction : StoredPredictions]] :
            n \in 0..MaxCaptured }

EmptyStore == [k \in {} |-> <<>>]

\* Ground truth written by an earlier run, before the clock readings of the
\* model.
PriorStore ==
    [k \in { [bucket |-> Bucket(S3GroundTruthUri),
              prefix |-> SubSeq(S3GroundTruthUri, 4, Len(S3GroundTruthUri)),
              stamp |-> 0 - 1] } |->
        JsonDumps(Record("e1", <<"Adelie">>))]

IsSqlite(uri) == StartsWith(uri, <<"sqlite:", "", "">>)

IsS3(uri) == StartsWith(uri, <<"s3:", "", "">>)

InitRuns(first) ==
    /\ pc = first
    /\ err = [r \in Runs |-> NoError]
    /\ labeled_samples = [r \in Runs |-> {}]
    /\ logged = [r \in Runs |-> {}]
    /\ conn = [r \in Runs |-> "none"]
    /\ txn = [r \in Runs |-> <<>>]
    /\ df = [r \in Runs |-> <<>>]
    /\ idx = [r \in Runs |-> 0]
    /\ data = [r \in Runs |-> <<>>]
    /\ records = [r \in Runs |-> <<>>]
    /\ upload_time = [r \in Runs |-> {}]
    /\ calls = [r \in Runs |-> <<>>]
    /\ label_calls = [r \in Runs |-> <<>>]
    /\ sample = [called |-> FALSE, prediction |-> "Adelie", r |-> 0, c |-> 1,
                 label |-> NULL]

\* One run of the flow, on any configuration.
Init ==
    /\ datastore_uri \in DatastoreUris
    /\ ground_truth_uri \in GroundTruthUris
    /\ ground_truth_quality \in QualityLevels
    /\ db \in (IF IsSqlite(datastore_uri) THEN Tables ELSE {<<>>})
    /\ captured \in (IF IsS3(datastore_uri) THEN Captures ELSE {<<>>})
    /\ s3 \in (IF IsS3(datastore_uri) THEN {EmptyStore, PriorStore} ELSE {EmptyStore})
    /\ db0 = db
    /\ s30 = s3
    /\ InitRuns([r \in Runs |-> IF r = "r1" THEN "start" ELSE "idle"])

\* ------------------------------------------------------------------ actions

\* start (lines 61-76): the dispatch on the scheme. The adapter's return value
\* is assigned and self.next(self.end) called by the action that returns.
Start(r) ==
    /\ pc[r] = "start"
    /\ IF IsSqlite(datastore_uri)
         THEN /\ pc' = [pc EXCEPT ![r] = "sqlite"]
              /\ err' = err
       ELSE IF IsS3(datastore_uri)
         THEN /\ pc' = [pc EXCEPT ![r] = "sagemaker"]
              /\ err' = err
       ELSE /\ pc' = [pc EXCEPT ![r] = "failed"]
            /\ err' = [err EXCEPT ![r] = [type |-> "ValueError",
                                          message |-> InvalidDatastoreMessage]]
    /\ UNCHANGED << sample, config, labeled_samples, logged, db, conn, txn, df, idx,
                    captured, s3, data, records, upload_time, calls,
                    label_calls, db0, s30 >>

\* end (lines 78-81)
End(r) ==
    /\ pc[r] = "end"
    /\ logged' = [logged EXCEPT ![r] = labeled_samples[r]]
    /\ pc' = [pc EXCEPT ![r] = "done"]
    /\ UNCHANGED << sample, config, err, labeled_samples, db, conn, txn, df, idx,
                    captured, s3, data, records, upload_time, calls,
                    label_calls, db0, s30 >>

\* Mutant: no early return when nothing is unlabeled.
SqliteLoadNoEarlyReturn(r) ==
    /\ pc[r] = "sqlite"
    /\ conn' = [conn EXCEPT ![r] = "open"]
    /\ calls' = [calls EXCEPT ![r] = @ \o << Call("connect", ""), Call("select", "") >>]
    /\ df' = [df EXCEPT ![r] = SelectUnlabeled(db)]
    /\ pc' = [pc EXCEPT ![r] = "sqlite_loop"]
    /\ idx' = [idx EXCEPT ![r] = 1]
    /\ UNCHANGED << sample, config, err, labeled_samples, logged, db, txn, captured,
                    s3, data, records, upload_time, label_calls, db0, s30 >>

\* _label_sqlite_data, lines 107-115: connect, read the unlabeled rows, and
\* return 0 when there is none. That return does not call close(): the
\* connection is closed only if the interpreter finalizes the object when the
\* frame goes, which the language leaves open.
SqliteLoad(r) ==
    /\ pc[r] = "sqlite"
    /\ calls' = [calls EXCEPT ![r] = @ \o << Call("connect", ""), Call("select", "") >>]
    /\ df' = [df EXCEPT ![r] = SelectUnlabeled(db)]
    /\ IF SelectUnlabeled(db) = <<>>
         THEN /\ \E c \in {"open", "closed"} : conn' = [conn EXCEPT ![r] = c]
              /\ labeled_samples' = [labeled_samples EXCEPT ![r] = {0}]
              /\ pc' = [pc EXCEPT ![r] = "end"]
              /\ idx' = idx
         ELSE /\ conn' = [conn EXCEPT ![r] = "open"]
              /\ labeled_samples' = labeled_samples
              /\ pc' = [pc EXCEPT ![r] = "sqlite_loop"]
              /\ idx' = [idx EXCEPT ![r] = 1]
    /\ UNCHANGED << sample, config, err, logged, db, txn, captured, s3, data, records,
                    upload_time, label_calls, db0, s30 >>

\* Mutant: a connection in autocommit mode, each UPDATE written at once.
SqliteUpdateAutocommit(r) ==
    /\ pc[r] = "sqlite_loop"
    /\ idx[r] <= Len(df[r])
    /\ \E label \in PossibleLabels(df[r][idx[r]].prediction, ground_truth_quality) :
          db' = ExecuteUpdate(db, label, df[r][idx[r]].uuid)
    /\ label_calls' = [label_calls EXCEPT ![r] = Append(@, df[r][idx[r]].uuid)]
    /\ calls' = [calls EXCEPT ![r] = Append(@, Call("execute", df[r][idx[r]].uuid))]
    /\ idx' = [idx EXCEPT ![r] = @ + 1]
    /\ UNCHANGED << sample, config, pc, err, labeled_samples, logged, txn, conn, df,
                    captured, s3, data, records, upload_time, db0, s30 >>

\* One iteration of the loop of lines 117-123: the label of the row, and its
\* UPDATE, executed in the connection's open transaction.
SqliteUpdate(r) ==
    /\ pc[r] = "sqlite_loop"
    /\ idx[r] <= Len(df[r])
    /\ \E label \in PossibleLabels(df[r][idx[r]].prediction, ground_truth_quality) :
          txn' = [txn EXCEPT ![r] = Append(@, [label |-> label,
                                               uuid |-> df[r][idx[r]].uuid])]
    /\ label_calls' = [label_calls EXCEPT ![r] = Append(@, df[r][idx[r]].uuid)]
    /\ calls' = [calls EXCEPT ![r] = Append(@, Call("execute", df[r][idx[r]].uuid))]
    /\ idx' = [idx EXCEPT ![r] = @ + 1]
    /\ UNCHANGED << sample, config, pc, err, labeled_samples, logged, db, conn, df,
                    captured, s3, data, records, upload_time, db0, s30 >>

\* Mutant: the loop left one row early.
SqliteCommitEarly(r) ==
    /\ pc[r] = "sqlite_loop"
    /\ idx[r] >= Len(df[r])
    /\ db' = ApplyUpdates(db, txn[r])
    /\ txn' = [txn EXCEPT ![r] = <<>>]
    /\ conn' = [conn EXCEPT ![r] = "closed"]
    /\ calls' = [calls EXCEPT ![r] = @ \o << Call("commit", ""), Call("close", "") >>]
    /\ labeled_samples' = [labeled_samples EXCEPT ![r] = {Len(df[r])}]
    /\ pc' = [pc EXCEPT ![r] = "end"]
    /\ UNCHANGED << sample, config, err, logged, df, idx, captured, s3, data, records,
                    upload_time, label_calls, db0, s30 >>

\* Lines 125-128: commit, close, return len(df).
SqliteCommit(r) ==
    /\ pc[r] = "sqlite_loop"
    /\ idx[r] > Len(df[r])
    /\ db' = ApplyUpdates(db, txn[r])
    /\ txn' = [txn EXCEPT ![r] = <<>>]
    /\ conn' = [conn EXCEPT ![r] = "closed"]
    /\ calls' = [calls EXCEPT ![r] = @ \o << Call("commit", ""), Call("close", "") >>]
    /\ labeled_samples' = [labeled_samples EXCEPT ![r] = {Len(df[r])}]
    /\ pc' = [pc EXCEPT ![r] = "end"]
    /\ UNCHANGED << sample, config, err, logged, df, idx, captured, s3, data, records,
                    upload_time, label_calls, db0, s30 >>

\* Mutant: the storage client created before ground_truth_uri is checked.
SmStartClientFirst(r) ==
    /\ pc[r] = "sagemaker"
    /\ calls' = [calls EXCEPT ![r] = Append(@, Call("client", ""))]
    /\ IF Falsy(ground_truth_uri)
         THEN /\ pc' = [pc EXCEPT ![r] = "failed"]
              /\ err' = [err EXCEPT ![r] = [type |-> "RuntimeError",
                                            message |-> GroundTruthRequiredMessage]]
         ELSE /\ pc' = [pc EXCEPT ![r] = "sm_load"]
              /\ err' = err
    /\ UNCHANGED << sample, config, labeled_samples, logged, db, conn, txn, df, idx,
                    captured, s3, data, records, upload_time, label_calls,
                    db0, s30 >>

\* _label_sagemaker_data, lines 142-146: the check of ground_truth_uri, then
\* the storage client.
SmStart(r) ==
    /\ pc[r] = "sagemaker"
    /\ IF Falsy(ground_truth_uri)
         THEN /\ pc' = [pc EXCEPT ![r] = "failed"]
              /\ err' = [err EXCEPT ![r] = [type |-> "RuntimeError",
                                            message |-> GroundTruthRequiredMessage]]
              /\ calls' = calls
         ELSE /\ pc' = [pc EXCEPT ![r] = "sm_load"]
              /\ err' = err
              /\ calls' = [calls EXCEPT ![r] = Append(@, Call("client", ""))]
    /\ UNCHANGED << sample, config, labeled_samples, logged, db, conn, txn, df, idx,
                    captured, s3, data, records, upload_time, label_calls,
                    db0, s30 >>

\* Lines 148-160: load the unlabeled rows, and return 0 when there is none.
SmLoad(r) ==
    /\ pc[r] = "sm_load"
    /\ calls' = [calls EXCEPT ![r] = Append(@, Call("load", ""))]
    /\ data' = [data EXCEPT ![r] = LoadUnlabeledData(s3, captured, ground_truth_uri)]
    /\ IF LoadUnlabeledData(s3, captured, ground_truth_uri) = <<>>
         THEN /\ labeled_samples' = [labeled_samples EXCEPT ![r] = {0}]
              /\ pc' = [pc EXCEPT ![r] = "end"]
         ELSE /\ labeled_samples' = labeled_samples
              /\ pc' = [pc EXCEPT ![r] = "sm_loop"]
    /\ records' = [records EXCEPT ![r] = <<>>]
    /\ UNCHANGED << sample, config, err, logged, db, conn, txn, df, idx, captured, s3,
                    upload_time, label_calls, db0, s30 >>

\* The lists of labels the inner loop (lines 163-165) can build for a group.
GroupLabels(group, quality) ==
    { l \in [1..Len(group) -> SpeciesSet \cup StoredPredictions] :
        \A k \in 1..Len(group) : l[k] \in PossibleLabels(group[k].prediction, quality) }

\* One iteration of the loop over the groups (lines 162-182): the labels of the
\* rows of the group, its record, serialized and appended to records.
SmGroup(r) ==
    /\ pc[r] = "sm_loop"
    /\ Len(records[r]) < Len(GroupKeys(data[r]))
    /\ LET event_id == GroupKeys(data[r])[Len(records[r]) + 1]
       IN  /\ \E predictions \in GroupLabels(Group(data[r], event_id),
                                             ground_truth_quality) :
                 records' = [records EXCEPT ![r] =
                                Append(@, JsonDumps(Record(event_id, predictions)))]
           /\ label_calls' = [label_calls EXCEPT ![r] =
                                 @ \o GroupIndices(data[r], event_id)]
    /\ UNCHANGED << sample, config, pc, err, labeled_samples, logged, db, conn, txn, df,
                    idx, captured, s3, data, upload_time, calls, db0, s30 >>

\* Lines 184-197: join the records, read the clock, put the object, return
\* len(data).
SmPut(r) ==
    /\ pc[r] = "sm_loop"
    /\ Len(records[r]) = Len(GroupKeys(data[r]))
    /\ \E t \in 0..MaxTime :
          /\ upload_time' = [upload_time EXCEPT ![r] = {t}]
          /\ s3' = PutObject(s3, ObjectKey(ground_truth_uri, t),
                             Join(Newline, records[r]))
    /\ calls' = [calls EXCEPT ![r] = Append(@, Call("put_object", ""))]
    /\ labeled_samples' = [labeled_samples EXCEPT ![r] = {Len(data[r])}]
    /\ pc' = [pc EXCEPT ![r] = "end"]
    /\ UNCHANGED << sample, config, err, logged, db, conn, txn, df, idx, captured, data,
                    records, label_calls, db0, s30 >>

\* Where an I/O call or a step of an adapter can raise.
FailPoints == {"sqlite", "sqlite_loop", "sm_load", "sm_loop"}

\* An exception raised inside an adapter: nothing catches it, the run ends. The
\* connection is never committed, so its open transaction is rolled back.
Fail(r) ==
    /\ pc[r] \in FailPoints
    /\ pc' = [pc EXCEPT ![r] = "failed"]
    /\ err' = [err EXCEPT ![r] = [type |-> "Exception", message |-> ""]]
    /\ txn' = [txn EXCEPT ![r] = <<>>]
    /\ UNCHANGED << sample, config, labeled_samples, logged, db, conn, df, idx, captured,
                    s3, data, records, upload_time, calls, label_calls, db0, s30 >>

Next ==
    \E r \in Runs :
        \/ Start(r)
        \/ SqliteLoad(r)
        \/ SqliteUpdate(r)
        \/ SqliteCommit(r)
        \/ SmStart(r)
        \/ SmLoad(r)
        \/ SmGroup(r)
        \/ SmPut(r)
        \/ Fail(r)
        \/ End(r)

Spec == Init /\ [][Next]_vars

\* Two runs of the flow at once on the same S3 locations.
InitRemote ==
    /\ datastore_uri = S3DataUri
    /\ ground_truth_uri \in GroundTruthUris
    /\ ground_truth_quality = Res
    /\ db = <<>>
    /\ captured \in Captures
    /\ s3 \in {EmptyStore, PriorStore}
    /\ db0 = db
    /\ s30 = s3
    /\ InitRuns([r \in Runs |-> "start"])

NextRemote ==
    \E r \in Runs :
        \/ Start(r)
        \/ SmStart(r)
        \/ SmLoad(r)
        \/ SmGroup(r)
        \/ SmPut(r)
        \/ Fail(r)
        \/ End(r)

SpecRemote == InitRemote /\ [][NextRemote]_vars

\* _get_label called on its own, for every prediction, quality and draw.
InitLabel ==
    /\ datastore_uri = SqliteUri
    /\ ground_truth_uri = NoneUri
    /\ ground_truth_quality \in 0..Res
    /\ db = <<>>
    /\ captured = <<>>
    /\ s3 = EmptyStore
    /\ db0 = db
    /\ s30 = s3
    /\ pc = [r \in Runs |-> "idle"]
    /\ err = [r \in Runs |-> NoError]
    /\ labeled_samples = [r \in Runs |-> {}]
    /\ logged = [r \in Runs |-> {}]
    /\ conn = [r \in Runs |-> "none"]
    /\ txn = [r \in Runs |-> <<>>]
    /\ df = [r \in Runs |-> <<>>]
    /\ idx = [r \in Runs |-> 0]
    /\ data = [r \in Runs |-> <<>>]
    /\ records = [r \in Runs |-> <<>>]
    /\ upload_time = [r \in Runs |-> {}]
    /\ calls = [r \in Runs |-> <<>>]
    /\ label_calls = [r \in Runs |-> <<>>]
    /\ sample \in [called : {FALSE}, prediction : Predictions, r : {0}, c : {1},
                   label : {NULL}]

\* _get_label (lines 83-95): one draw of random.random(), one of random.choice.
GetLabelCall ==
    /\ ~sample.called
    /\ \E r \in 0..(Res - 1), c \in DOMAIN Species :
          sample' = [called |-> TRUE, prediction |-> sample.prediction,
                     r |-> r, c |-> c,
                     label |-> GetLabel(sample.prediction, ground_truth_quality, r, c)]
    /\ UNCHANGED << config, pc, err, labeled_samples, logged, db, conn, txn, df,
                    idx, captured, s3, data, records, upload_time, calls,
                    label_calls, db0, s30 >>

NextLabel == GetLabelCall

SpecLabel == InitLabel /\ [][NextLabel]_vars

\* ------------------------------------------------------------------ claims

Finished(r) == pc[r] \in {"end", "done"}

\* The scheme test, stated on the segments.
HasScheme(uri, scheme) == Len(uri) >= 3 /\ uri[1] = scheme /\ uri[2] = ""

NullRows(table) == { k \in DOMAIN table : table[k].species = NULL }

\* How often a value occurs in a list.
Occurrences(seq, x) == Cardinality({ k \in DOMAIN seq : seq[k] = x })

RECURSIVE SplitLines(_)
\* body.split("\n")
SplitLines(body) ==
    IF \A k \in DOMAIN body : body[k] # Newline THEN << body >>
    ELSE LET i == CHOOSE k \in DOMAIN body :
                    /\ body[k] = Newline
                    /\ \A j \in 1..(k - 1) : body[j] # Newline
         IN  << SubSeq(body, 1, i - 1) >> \o SplitLines(SubSeq(body, i + 1, Len(body)))

\* The records of a body whose every line is one JSON record; <<>> otherwise.
ParseLines(body) ==
    LET lines == SplitLines(body)
    IN  IF \A k \in DOMAIN lines :
               Len(lines[k]) = 1 /\ DOMAIN lines[k][1] = {"json"}
        THEN [k \in DOMAIN lines |-> lines[k][1].json]
        ELSE <<>>

\* The rows of one event, in the order of the data.
RowsOf(rows, e) == SelectSeq(rows, LAMBDA row : row.event_id = e)

EventsOf(rows) == { rows[k].event_id : k \in DOMAIN rows }

\* The objects written since the start.
NewKeys == (DOMAIN s3) \ (DOMAIN s30)

\* C1: after a run of the SQLite adapter has committed, it loaded exactly the
\* N rows whose species was null, all N of them have a non-null species, and
\* every row that was labeled before is exactly as it was (no row is added or
\* removed, and no other column of any row changes).
C1_LocalLabelsOnlyNullRows ==
    \A r \in Runs :
        (HasScheme(datastore_uri, "sqlite:") /\ Count(r, "select") >= 1) =>
            /\ Len(df[r]) = Cardinality(NullRows(db0))
            /\ \A k \in NullRows(db0) : \E j \in DOMAIN df[r] : df[r][j] = db0[k]
            /\ Count(r, "commit") >= 1 =>
                  /\ Len(db) = Len(db0)
                  /\ \A k \in DOMAIN db0 :
                        IF db0[k].species = NULL
                          THEN /\ db[k].species # NULL
                               /\ db[k].uuid = db0[k].uuid
                               /\ db[k].prediction = db0[k].prediction
                          ELSE db[k] = db0[k]

C1_Witness ==
    /\ Count("r1", "commit") = 1
    /\ NullRows(db0) # {}
    /\ NullRows(db0) # DOMAIN db0
    /\ NullRows(db) = {}

\* C2: a datastore_uri of neither scheme makes start raise the ValueError that
\* names both formats, and an s3:// datastore_uri with ground_truth_uri absent
\* or empty makes the adapter raise; in both cases the run has made no I/O call
\* (no connection, no client, no read, no write), has changed neither store, and
\* never reaches the end step.
C2_ConfigErrorsBeforeIO ==
    \A r \in Runs :
        /\ (pc[r] # "idle" /\ ~HasScheme(datastore_uri, "sqlite:")
                           /\ ~HasScheme(datastore_uri, "s3:")) =>
              /\ pc[r] \in {"start", "failed"}
              /\ pc[r] = "failed" =>
                    err[r] = [type |-> "ValueError", message |-> InvalidDatastoreMessage]
              /\ calls[r] = <<>> /\ conn[r] = "none"
              /\ db = db0 /\ s3 = s30
        /\ (pc[r] # "idle" /\ HasScheme(datastore_uri, "s3:")
                           /\ (ground_truth_uri = NoneUri \/ ground_truth_uri = <<"">>)) =>
              /\ pc[r] \in {"start", "sagemaker", "failed"}
              /\ pc[r] = "failed" =>
                    err[r] = [type |-> "RuntimeError", message |-> GroundTruthRequiredMessage]
              /\ calls[r] = <<>> /\ conn[r] = "none"
              /\ db = db0 /\ s3 = s30

C2_Witness ==
    /\ pc["r1"] = "failed"
    /\ err["r1"].type = "RuntimeError"
    /\ ground_truth_uri = <<"">>
    /\ captured # <<>>

\* C3: a finished run of the S3 adapter that loaded rows of k events has made
\* exactly one put_object; the body it wrote has exactly k lines, each one JSON
\* record; every event has exactly one record, with encoding "CSV", eventVersion
\* "0" and one label per row of the event in the order of the loaded rows.
C3_OneRecordPerEvent ==
    \A r \in Runs :
        (Finished(r) /\ HasScheme(datastore_uri, "s3:") /\ data[r] # <<>>) =>
            /\ Count(r, "put_object") = 1
            /\ Cardinality(NewKeys) = 1
            /\ \A key \in NewKeys :
                  LET recs == ParseLines(s3[key])
                  IN  /\ Len(recs) = Cardinality(EventsOf(data[r]))
                      /\ \A e \in EventsOf(data[r]) :
                            /\ Cardinality({ k \in DOMAIN recs :
                                   recs[k].eventMetadata.eventId = e }) = 1
                            /\ \A k \in DOMAIN recs :
                                  recs[k].eventMetadata.eventId = e =>
                                    /\ recs[k].groundTruthData.encoding = "CSV"
                                    /\ recs[k].eventVersion = "0"
                                    /\ Len(recs[k].groundTruthData.data)
                                          = Len(RowsOf(data[r], e))
                                    /\ \A j \in DOMAIN RowsOf(data[r], e) :
                                          LET label == recs[k].groundTruthData.data[j]
                                              row == RowsOf(data[r], e)[j]
                                          IN  /\ label \in SpeciesSet \cup {row.prediction}
                                              /\ ground_truth_quality = Res =>
                                                    label = row.prediction

\* Events e1 with two rows and e2 with one: two lines, data of length 2 and 1.
C3_Witness ==
    /\ pc["r1"] = "done"
    /\ Len(RowsOf(data["r1"], "e1")) = 2
    /\ Len(RowsOf(data["r1"], "e2")) = 1
    /\ RowsOf(data["r1"], "e1")[1].prediction # RowsOf(data["r1"], "e1")[2].prediction
    /\ \E key \in NewKeys :
          /\ Len(ParseLines(s3[key])) = 2
          /\ Len(ParseLines(s3[key])[1].groundTruthData.data) = 2
          /\ Len(ParseLines(s3[key])[2].groundTruthData.data) = 1

\* C4: a run whose load finds nothing unlabeled is not an error: it makes no
\* write (no UPDATE and no commit, no put_object), leaves both stores as they
\* were, sets labeled_samples to 0, goes on to the end step, and the end step
\* reports 0.
C4_EmptyLoadWritesNothing ==
    \A r \in Runs :
        ( \/ HasScheme(datastore_uri, "sqlite:") /\ Count(r, "select") >= 1
                                                 /\ NullRows(db0) = {}
          \/ HasScheme(datastore_uri, "s3:") /\ Count(r, "load") >= 1
                                             /\ data[r] = <<>> ) =>
            /\ Finished(r)
            /\ err[r] = NoError
            /\ labeled_samples[r] = {0}
            /\ pc[r] = "done" => logged[r] = {0}
            /\ Count(r, "execute") = 0 /\ Count(r, "commit") = 0
            /\ Count(r, "put_object") = 0
            /\ db = db0 /\ s3 = s30

C4_Witness ==
    /\ pc["r1"] = "done"
    /\ HasScheme(datastore_uri, "sqlite:")
    /\ Len(db0) = MaxRows
    /\ NullRows(db0) = {}
    /\ logged["r1"] = {0}

\* C5: _get_label returns the prediction when the draw r/Res is below
\* ground_truth_quality and otherwise the member of the species list that
\* random.choice picked; so a quality of 1.0 always gives the prediction and a
\* quality of 0.0 always gives the re-sampled member of the list.
C5_LabelGenerator ==
    sample.called =>
        /\ sample.r < ground_truth_quality => sample.label = sample.prediction
        /\ sample.r >= ground_truth_quality =>
              /\ sample.label \in {"Adelie", "Chinstrap", "Gentoo"}
              /\ sample.label = Species[sample.c]
        /\ ground_truth_quality = Res => sample.label = sample.prediction
        /\ ground_truth_quality = 0 => sample.label = Species[sample.c]

\* Quality 0.0 on a prediction outside the list: the label is the re-sampled one.
C5_Witness ==
    /\ sample.called
    /\ ground_truth_quality = 0
    /\ sample.prediction = "Emperor"
    /\ sample.label = "Chinstrap"

\* C6: in a finished run of either adapter, _get_label was called exactly once
\* for every loaded row and for nothing else, every loaded row was persisted
\* exactly once (SQLite: one UPDATE per uuid and one commit; S3: one put_object
\* whose records hold as many labels as rows were loaded), and labeled_samples,
\* which the end step logs, is the number of loaded rows.
C6_EachRowLabeledOnce ==
    \A r \in Runs :
        Finished(r) =>
            /\ HasScheme(datastore_uri, "sqlite:") =>
                  /\ Len(label_calls[r]) = Len(df[r])
                  /\ Count(r, "execute") = Len(df[r])
                  /\ \A j \in DOMAIN df[r] :
                        /\ Occurrences(label_calls[r], df[r][j].uuid) = 1
                        /\ Occurrences(calls[r], Call("execute", df[r][j].uuid)) = 1
                  /\ df[r] # <<>> => Count(r, "commit") = 1
                  /\ labeled_samples[r] = {Len(df[r])}
                  /\ pc[r] = "done" => logged[r] = {Len(df[r])}
            /\ HasScheme(datastore_uri, "s3:") =>
                  /\ Len(label_calls[r]) = Len(data[r])
                  /\ \A j \in DOMAIN data[r] : Occurrences(label_calls[r], j) = 1
                  /\ data[r] # <<>> =>
                        /\ Count(r, "put_object") = 1
                        /\ \A e \in EventsOf(data[r]) :
                              Cardinality({ k \in DOMAIN records[r] :
                                  /\ records[r][k][1].json.eventMetadata.eventId = e
                                  /\ Len(records[r][k][1].json.groundTruthData.data)
                                        = Len(RowsOf(data[r], e)) }) = 1
                        /\ Len(records[r]) = Cardinality(EventsOf(data[r]))
                        /\ \A key \in NewKeys : s3[key] = Join(Newline, records[r])
                        /\ NewKeys # {}
                  /\ labeled_samples[r] = {Len(data[r])}
                  /\ pc[r] = "done" => logged[r] = {Len(data[r])}

C6_Witness ==
    /\ pc["r1"] = "done"
    /\ HasScheme(datastore_uri, "sqlite:")
    /\ Len(df["r1"]) = MaxRows
    /\ logged["r1"] = {MaxRows}
    /\ Count("r1", "execute") = MaxRows

\* C7: the S3 adapter is append-only: every object that was there before the
\* runs is still there with the same content, and every put_object of a run
\* added one object under a key of its own, so the number of objects is the
\* number there was plus the number of put_object calls made.
C7_AppendOnly ==
    /\ \A key \in DOMAIN s30 : key \in DOMAIN s3 /\ s3[key] = s30[key]
    /\ Cardinality(DOMAIN s3) =
          Cardinality(DOMAIN s30) + Count("r1", "put_object") + Count("r2", "put_object")

\* C8: a run that failed inside an adapter has changed nothing: the table is
\* the one before the run (none of the UPDATEs of the batch, never a part of
\* them) and no object was written. The table does not change before the commit
\* either.
C8_AllOrNothing ==
    \A r \in Runs :
        /\ pc[r] = "failed" =>
              /\ db = db0
              /\ s3 = s30
              /\ Count(r, "commit") = 0 /\ Count(r, "put_object") = 0
        /\ (pc[r] # "idle" /\ Count(r, "commit") = 0) => db = db0
        /\ (pc[r] # "idle" /\ Count(r, "put_object") = 0) => s3 = s30

\* A failure in the middle of the batch: some UPDATEs executed, not all.
C8_Witness ==
    /\ pc["r1"] = "failed"
    /\ err["r1"].type = "Exception"
    /\ Count("r1", "execute") >= 1
    /\ Count("r1", "execute") < Len(df["r1"])

\* C9: when _label_sqlite_data has returned normally, the connection it opened
\* is closed, whatever the number of unlabeled rows.
C9_ConnectionClosedOnReturn ==
    \A r \in Runs :
        (HasScheme(datastore_uri, "sqlite:") /\ Finished(r)) => conn[r] = "closed"

\* The ground-truth entries of an event: the (object, line) pairs whose record
\* has the event's id.
Entries(e) ==
    { <<key, k>> \in UNION { { <<key, k>> : k \in DOMAIN ParseLines(s3[key]) } :
                             key \in DOMAIN s3 } :
        ParseLines(s3[key])[k].eventMetadata.eventId = e }

\* C10: two runs of the S3 adapter are not excluded from one another: when both
\* have retrieved the same event (both loaded before either wrote) and have
\* written at upload times of different seconds, the ground-truth location
\* holds two entries for that event, one in each run's own object.
C10_ConcurrentRunsDuplicate ==
    \A e \in EventSet :
        ( /\ Finished("r1") /\ Finished("r2")
          /\ e \in EventsOf(data["r1"]) /\ e \in EventsOf(data["r2"])
          /\ \A t1 \in upload_time["r1"], t2 \in upload_time["r2"] :
                (t1 \div TicksPerSecond) # (t2 \div TicksPerSecond) ) =>
            /\ Cardinality(NewKeys) = 2
            /\ Cardinality(Entries(e)) >= 2

C10_Witness ==
    /\ pc["r1"] = "done" /\ pc["r2"] = "done"
    /\ "e1" \in EventsOf(data["r1"]) /\ "e1" \in EventsOf(data["r2"])
    /\ upload_time["r1"] = {0} /\ upload_time["r2"] = {MaxTime}
    /\ Cardinality(NewKeys) = 2
    /\ Cardinality(Entries("e1")) = 2

====
